---- MODULE Spec2Model ----
(***************************************************************************)
(* A model of the Pulumi EKS program: __main__.main, the four component    *)
(* functions it calls (create_vpc, create_iam_roles, create_eks_cluster,   *)
(* setup_addons), and the resources and dependency edges they declare.     *)
(*                                                                         *)
(* A resource is a pair <<kind, index>>; the project-name prefix that the  *)
(* program puts in front of most logical names is the same for every       *)
(* resource of a run and is left out.  The IaC engine is the environment:  *)
(* it may apply a declared resource once everything that resource depends  *)
(* on has been applied, in any order the edges allow.                      *)
(***************************************************************************)
EXTENDS Integers, FiniteSets, Sequences, TLC

VARIABLES
    entry,            \* which function the run enters: "main" or "setup_addons"
    env,              \* the ENV environment variable, "unset" when not set
    files,            \* the files that exist under config/
    cfg,              \* the contents of the config file the run loads
    stack_region,     \* whether the stack setting 'aws-region' is set
    pc,               \* the statement the program executes next
    error,            \* the exception that ended the run, "none" otherwise
    read,             \* the config files opened so far
    loaded,           \* the file whose contents load_eks_config returned
    azs,              \* number of zones get_availability_zones returned, -1 before
    declared,         \* the resources declared so far
    applied,          \* the tracked resources the engine has applied so far
    addons_config,    \* the add-on flags read so far ("unread" before)
    region_required,  \* whether config.require("aws-region") has been called
    karpenter_config, \* the value main computes for karpenter_config
    exports,          \* the stack outputs exported so far
    providers         \* how many Kubernetes providers have been constructed

vars == <<entry, env, files, cfg, stack_region, pc, error, read, loaded, azs,
          declared, applied, addons_config, region_required, karpenter_config,
          exports, providers>>

(***************************************************************************)
(* Bounds and program constants.                                           *)
(***************************************************************************)
\* The longest zone list the provider returns in the model.
MaxAzs == 3

\* vpc/__init__.py:48 keeps the first two zones: names[:2].
AzsUsed == 2

\* iam/__init__.py:74-79: four managed policies are attached to the node role.
NodePolicies == 4

Min(a, b) == IF a < b THEN a ELSE b

(***************************************************************************)
(* A JSON value under a flag key, as an `if` sees it: the key is absent,   *)
(* or its value is truthy (true, a non-zero number, a non-empty string or  *)
(* container) or falsy (false, null, 0, "", [], {}).                       *)
(***************************************************************************)
FlagValues == {"absent", "truthy", "falsy"}

Truthy(v) == v = "truthy"

\* d.get(key, default) where v is the value under key or "absent".
DictGet(v, default) == IF v = "absent" THEN default ELSE v

(***************************************************************************)
(* load_eks_config                                                         *)
(***************************************************************************)
EnvNames == {"dev", "prod"}
DefaultFile == "eks-config.json"

\* os.environ.get('ENV', 'dev')
EnvGet(e) == IF e = "unset" THEN "dev" ELSE e

\* f'eks-config.{env}.json'
EnvFile(e) == IF e = "dev" THEN "eks-config.dev.json" ELSE "eks-config.prod.json"

AllFiles == {EnvFile(e) : e \in EnvNames} \cup {DefaultFile}

config_paths(e) == <<EnvFile(EnvGet(e)), DefaultFile>>

\* The loop over config_paths: the first path that exists is opened and its
\* contents returned; the paths before it are only tested for existence.
RECURSIVE FirstExisting(_, _, _)
FirstExisting(paths, fs, i) ==
    IF i > Len(paths) THEN "none"
    ELSE IF paths[i] \in fs THEN paths[i]
    ELSE FirstExisting(paths, fs, i + 1)

\* The two paths tried in the other order.
load_default_first(e, fs) ==
    FirstExisting(<<DefaultFile, EnvFile(EnvGet(e))>>, fs, 1)

load_eks_config(e, fs) == FirstExisting(config_paths(e), fs, 1)

(***************************************************************************)
(* Resources.  R(kind) is the only resource of its kind; kinds declared in *)
(* a loop carry the loop index.                                            *)
(***************************************************************************)
R(kind) == <<kind, 0>>

\* The zones create_vpc uses: names[:2] of the n zones returned.
ZonesUsed(n) == Min(n, AzsUsed)

Indexes(n) == 0 .. (n - 1)

\* create_vpc, lines 31-87 and the Eip of line 90: what is declared before
\* public_subnets[0] is evaluated.
VpcBeforeNat(n) ==
    {R("vpc"), R("igw"), R("public-rt"), R("nat-eip")}
    \cup {<<"public", i>> : i \in Indexes(n)}
    \cup {<<"private", i>> : i \in Indexes(n)}
    \cup {<<"public-rta", i>> : i \in Indexes(n)}

\* create_vpc, lines 91-120: the NAT gateway and what follows it.
VpcFromNat(n) ==
    {R("natgw"), R("private-rt"), R("s3-endpoint")}
    \cup {<<"private-rta", i>> : i \in Indexes(n)}

\* create_vpc(project_name) when the provider returns `zones` zones: the
\* resources it declares and the exception it raises.  public_subnets[0]
\* raises IndexError when no subnet was created.
create_vpc(zones) ==
    LET n == ZonesUsed(zones) IN
    IF n = 0
    THEN [declares |-> VpcBeforeNat(n), raises |-> "IndexError"]
    ELSE [declares |-> VpcBeforeNat(n) \cup VpcFromNat(n), raises |-> "none"]

(***************************************************************************)
(* create_vpc in detail: zones, address blocks, route tables.              *)
(***************************************************************************)
\* The zone names the provider returns, as a list of n distinct names.
ZoneNames(n) == [j \in 1 .. n |-> j]

\* azs = names[:2]
FirstZones(n) == SubSeq(ZoneNames(n), 1, ZonesUsed(n))

\* for i, az in enumerate(azs): the zone of the subnets of index i.
SubnetZone(i, n) == FirstZones(n)[i + 1]

\* An address block a.b.c.d/len as the range of the addresses in it.
Pow2(k) == 2 ^ k

CidrBlock(a, b, c, d, len) ==
    LET first == ((a * 256 + b) * 256 + c) * 256 + d IN
    [lo |-> first, hi |-> first + Pow2(32 - len) - 1]

\* cidr_block="10.0.0.0/16"
VpcCidrBlock == CidrBlock(10, 0, 0, 0, 16)

\* cidr_block=f"10.0.{i}.0/24"
PublicCidrBlock(i) == CidrBlock(10, 0, i, 0, 24)

\* The private blocks numbered from 1 instead of 10: f"10.0.{i+1}.0/24".
PrivateCidrBlockFromOne(i) == CidrBlock(10, 0, i + 1, 0, 24)

\* cidr_block=f"10.0.{i+10}.0/24"
PrivateCidrBlock(i) == CidrBlock(10, 0, i + 10, 0, 24)

SubnetCidrBlock(s) ==
    IF s[1] = "public" THEN PublicCidrBlock(s[2]) ELSE PrivateCidrBlock(s[2])

IsSubnet(r) == r[1] \in {"public", "private"}
IsAssociation(r) == r[1] \in {"public-rta", "private-rta"}

\* subnet_id of a RouteTableAssociation
AssociationSubnet(a) ==
    IF a[1] = "public-rta" THEN <<"public", a[2]>> ELSE <<"private", a[2]>>

\* Every association given the public route table.
AssociationRouteTablePublicOnly(a) == R("public-rt")

\* route_table_id of a RouteTableAssociation
AssociationRouteTable(a) ==
    IF a[1] = "public-rta" THEN R("public-rt") ELSE R("private-rt")

\* The gateway of a route table's 0.0.0.0/0 route.
DefaultRoute(rt) == IF rt = R("public-rt") THEN R("igw") ELSE R("natgw")

\* subnet_id=public_subnets[0].id of the NAT gateway
NatGatewaySubnet == <<"public", 0>>

\* route_table_ids=[private_rt.id] of the S3 endpoint
EndpointRouteTables == {R("private-rt")}

\* VpcOutput.private_subnet_ids and .public_subnet_ids
PrivateSubnetIds(n) == [j \in 1 .. n |-> <<"private", j - 1>>]
PublicSubnetIds(n) == [j \in 1 .. n |-> <<"public", j - 1>>]

(***************************************************************************)
(* create_eks_cluster in detail: what the cluster and the node group are   *)
(* given, in a run with n zones in use.                                    *)
(***************************************************************************)
\* subnet_ids=private_subnet_ids + public_subnet_ids
ClusterSubnetIds(n) == PrivateSubnetIds(n) \o PublicSubnetIds(n)

\* The node group given the cluster's subnet list.
NodeGroupSubnetIdsAll(n) == PrivateSubnetIds(n) \o PublicSubnetIds(n)

\* subnet_ids=private_subnet_ids
NodeGroupSubnetIds(n) == PrivateSubnetIds(n)

\* node_role_arn=node_role_arn, which main sets to roles.node_role.arn
NodeGroupRole == R("node-role")

\* cluster_name=cluster.core.cluster.name
NodeGroupCluster == R("cluster")

\* create_iam_roles(project_name)
create_iam_roles ==
    {R("cluster-role"), R("cluster-policy"), R("node-role"),
     R("cluster-autoscaler-policy"), R("autoscaler-policy-attach")}
    \cup {<<"node-policy", i>> : i \in Indexes(NodePolicies)}

\* create_eks_cluster(...): security group, cluster, managed node group.
create_eks_cluster == {R("cluster-sg"), R("cluster"), R("ng")}

\* The six add-ons of setup_addons, by their addons_config key, in the order
\* setup_addons looks at them.
AddonKeys ==
    <<"metricsServer", "clusterAutoscaler", "awsLoadBalancerController",
      "externalDns", "certManager", "ebsCsiDriver">>

AddonKeySet == {AddonKeys[i] : i \in 1 .. Len(AddonKeys)}

\* The Helm chart each add-on installs.
ChartOf(key) ==
    CASE key = "metricsServer" -> R("metrics-server")
      [] key = "clusterAutoscaler" -> R("cluster-autoscaler")
      [] key = "awsLoadBalancerController" -> R("aws-load-balancer-controller")
      [] key = "externalDns" -> R("external-dns")
      [] key = "certManager" -> R("cert-manager")
      [] key = "ebsCsiDriver" -> R("aws-ebs-csi-driver")

Charts == {ChartOf(k) : k \in AddonKeySet}

\* What the _install_<addon> function of each key declares.
InstallDeclares(key) ==
    CASE key = "certManager" -> {R("cert-manager-ns"), R("cert-manager")}
      [] key = "ebsCsiDriver" -> {R("kube-system-ns"), R("aws-ebs-csi-driver")}
      [] OTHER -> {ChartOf(key)}

K8sProvider == R("k8s-provider")

AddonResources == {K8sProvider} \cup UNION {InstallDeclares(k) : k \in AddonKeySet}

\* The aws.iam.Role resources create_iam_roles declares, by the name that
\* follows the project prefix.
IamRoleNames == {"cluster-role", "node-role"}

\* The role a chart names in the eks.amazonaws.com/role-arn annotation of
\* its service account (the name after the project prefix), "none" for a
\* chart without the annotation.
AnnotatedRole(chart) ==
    CASE chart = R("cluster-autoscaler") -> "cluster-autoscaler-role"
      [] chart = R("aws-load-balancer-controller") ->
            "aws-load-balancer-controller-role"
      [] chart = R("external-dns") -> "external-dns-role"
      [] chart = R("aws-ebs-csi-driver") -> "ebs-csi-controller-role"
      [] OTHER -> "none"

\* Every resource a run with n zones in use can declare.
AllResources(n) ==
    VpcBeforeNat(n) \cup VpcFromNat(n) \cup create_iam_roles
    \cup create_eks_cluster \cup AddonResources

(***************************************************************************)
(* Dependency edges: Deps(r, n) are the resources whose outputs r consumes *)
(* or that r names in depends_on / provider, in a run with n zones in use. *)
(***************************************************************************)
\* vpc/__init__.py
VpcDeps(r) ==
    LET k == r[1]  i == r[2] IN
    CASE k \in {"igw", "public", "private"} -> {R("vpc")}
      [] k = "public-rt" -> {R("vpc"), R("igw")}
      [] k = "public-rta" -> {<<"public", i>>, R("public-rt")}
      [] k = "natgw" -> {R("nat-eip"), <<"public", 0>>}
      [] k = "private-rt" -> {R("vpc"), R("natgw")}
      [] k = "private-rta" -> {<<"private", i>>, R("private-rt")}
      [] k = "s3-endpoint" -> {R("vpc"), R("private-rt")}
      [] OTHER -> {}

\* iam/__init__.py
IamDeps(r) ==
    LET k == r[1] IN
    CASE k = "cluster-policy" -> {R("cluster-role")}
      [] k = "node-policy" -> {R("node-role")}
      [] k = "autoscaler-policy-attach" ->
            {R("node-role"), R("cluster-autoscaler-policy")}
      [] OTHER -> {}

\* eks/__init__.py: the cluster takes vpc_id, its security group and
\* private_subnet_ids + public_subnet_ids; the node group takes the
\* cluster's name, node_role_arn and private_subnet_ids.
EksDeps(r, n) ==
    LET k == r[1] IN
    CASE k = "cluster-sg" -> {R("vpc")}
      [] k = "cluster" ->
            {R("vpc"), R("cluster-sg")}
            \cup {<<"private", j>> : j \in Indexes(n)}
            \cup {<<"public", j>> : j \in Indexes(n)}
      [] k = "ng" ->
            {R("cluster"), R("node-role")}
            \cup {<<"private", j>> : j \in Indexes(n)}
      [] OTHER -> {}

\* A copy-paste slip: the cert-manager chart waits for the namespace of the
\* EBS CSI driver instead of its own.
AddonDepsWrongNamespace(r) ==
    LET k == r[1] IN
    CASE k = "k8s-provider" -> {R("cluster")}
      [] k \in {"metrics-server", "external-dns"} -> {K8sProvider}
      [] k = "cluster-autoscaler" -> {K8sProvider, R("cluster")}
      [] k = "aws-load-balancer-controller" ->
            {K8sProvider, R("cluster"), R("vpc")}
      [] k \in {"cert-manager-ns", "kube-system-ns"} -> {K8sProvider}
      [] k = "cert-manager" -> {K8sProvider, R("kube-system-ns")}
      [] k = "aws-ebs-csi-driver" -> {K8sProvider, R("kube-system-ns")}
      [] OTHER -> {}

\* The namespaces left out of the charts' options: the cert-manager and EBS
\* CSI charts name the provider only, like the other charts.
AddonDepsWithoutDependsOn(r) ==
    LET k == r[1] IN
    CASE k = "k8s-provider" -> {R("cluster")}
      [] k \in {"metrics-server", "external-dns"} -> {K8sProvider}
      [] k = "cluster-autoscaler" -> {K8sProvider, R("cluster")}
      [] k = "aws-load-balancer-controller" ->
            {K8sProvider, R("cluster"), R("vpc")}
      [] k \in {"cert-manager-ns", "kube-system-ns"} -> {K8sProvider}
      [] k \in {"cert-manager", "aws-ebs-csi-driver"} -> {K8sProvider}
      [] OTHER -> {}

\* addons/__init__.py: the provider takes the cluster's kubeconfig; every
\* chart and namespace names the provider in its options; the charts that
\* are given cluster_name or vpc_id consume those outputs; the cert-manager
\* and EBS CSI charts name their namespace in depends_on.
AddonDeps(r) ==
    LET k == r[1] IN
    CASE k = "k8s-provider" -> {R("cluster")}
      [] k \in {"metrics-server", "external-dns"} -> {K8sProvider}
      [] k = "cluster-autoscaler" -> {K8sProvider, R("cluster")}
      [] k = "aws-load-balancer-controller" ->
            {K8sProvider, R("cluster"), R("vpc")}
      [] k \in {"cert-manager-ns", "kube-system-ns"} -> {K8sProvider}
      [] k = "cert-manager" -> {K8sProvider, R("cert-manager-ns")}
      [] k = "aws-ebs-csi-driver" -> {K8sProvider, R("kube-system-ns")}
      [] OTHER -> {}

Deps(r, n) == VpcDeps(r) \cup IamDeps(r) \cup EksDeps(r, n) \cup AddonDeps(r)

\* Everything r depends on, directly or through other resources.  The
\* iteration is bounded by the number of resources, so it ends on any edge
\* relation.
RECURSIVE Closure(_, _, _)
Closure(S, n, fuel) ==
    LET T == S \cup UNION {Deps(r, n) : r \in S} IN
    IF fuel = 0 \/ T = S THEN S ELSE Closure(T, n, fuel - 1)

\* The closure of every resource, for each number of zones in use.
AncestorTable ==
    [n \in 0 .. AzsUsed |->
        [r \in AllResources(n) |->
            Closure(Deps(r, n), n, Cardinality(AllResources(n)))]]

Ancestors(r, n) == AncestorTable[n][r]

(***************************************************************************)
(* The engine.  `applied` records its progress on the resources whose      *)
(* relative order matters here (the others are leaves of the graph or lie  *)
(* between two tracked resources); a tracked resource is ready when every  *)
(* tracked resource it depends on, directly or not, has been applied.      *)
(***************************************************************************)
Tracked ==
    {R("vpc"), R("node-role"), R("cluster"), R("ng"), K8sProvider,
     R("cert-manager-ns"), R("kube-system-ns")} \cup Charts

Ready(r) ==
    /\ r \in (declared \cap Tracked) \ applied
    /\ (Ancestors(r, ZonesUsed(azs)) \cap Tracked) \subseteq applied

\* The engine applies one ready resource.
Apply ==
    /\ \E r \in declared \cap Tracked :
          /\ Ready(r)
          /\ applied' = applied \cup {r}
    /\ UNCHANGED <<entry, env, files, cfg, stack_region, pc, error, read,
                   loaded, azs, declared, addons_config, region_required,
                   karpenter_config, exports, providers>>

(***************************************************************************)
(* The configuration document.  project_name: whether project.name is      *)
(* there; eks: whether the 'eks' section is there and holds 'node';        *)
(* addons: whether eks.addons is there; enable and karpenter: the values   *)
(* of eks.addons.enable and eks.addons.karpenter; karpenter_section:       *)
(* whether the top-level 'karpenter' section is there.                     *)
(***************************************************************************)
Configs ==
    {c \in [project_name : BOOLEAN,
            eks : {"absent", "no_node", "node"},
            addons : {"absent", "present"},
            enable : FlagValues,
            karpenter : FlagValues,
            karpenter_section : BOOLEAN] :
        /\ c.eks = "absent" => c.addons = "absent"
        /\ c.addons = "absent" => c.enable = "absent" /\ c.karpenter = "absent"}

\* A complete configuration: what a run that enters setup_addons directly
\* is taken to have loaded.
SomeConfig ==
    [project_name |-> TRUE, eks |-> "node", addons |-> "present",
     enable |-> "truthy", karpenter |-> "absent", karpenter_section |-> FALSE]

Unread == [k \in AddonKeySet |-> "unread"]

\* The keyword arguments of main's call to setup_addons, lines 74-82.
CallKeywords ==
    {"kubeconfig", "project_name", "aws_region", "addons_config",
     "cluster_name", "vpc_id", "karpenter_config"}

\* The parameters setup_addons declares, lines 20-27.
SetupAddonsParams ==
    {"kubeconfig", "project_name", "aws_region", "addons_config",
     "cluster_name", "vpc_id"}

\* The three pulumi.export calls of lines 85-87.
MainExports == {"kubeconfig", "cluster_name", "vpc_id"}

(***************************************************************************)
(* Initial states.  A run enters at main with any environment, or enters   *)
(* setup_addons directly, called on the cluster that create_vpc,           *)
(* create_iam_roles and create_eks_cluster declared.                       *)
(***************************************************************************)
InitMain ==
    /\ entry = "main"
    /\ env \in {"unset"} \cup EnvNames
    /\ files \in SUBSET AllFiles
    /\ cfg \in Configs
    /\ stack_region \in BOOLEAN
    /\ pc = "load"
    /\ azs = -1
    /\ declared = {}

InitAddons ==
    /\ entry = "setup_addons"
    /\ env = "unset"
    /\ files = {DefaultFile}
    /\ cfg = SomeConfig
    /\ stack_region = TRUE
    /\ pc = "provider"
    /\ azs = AzsUsed
    /\ declared = create_vpc(azs).declares \cup create_iam_roles
                    \cup create_eks_cluster

Init ==
    /\ InitMain \/ InitAddons
    /\ error = "none"
    /\ read = {}
    /\ loaded = "none"
    /\ applied = {}
    /\ addons_config = Unread
    /\ region_required = FALSE
    /\ karpenter_config = "unset"
    /\ exports = {}
    /\ providers = 0

\* The run ends with exception e.
Raise(e) == pc' = "failed" /\ error' = e

(***************************************************************************)
(* main, statement by statement.                                           *)
(***************************************************************************)
\* line 43: eks_config = load_eks_config()
MainLoad ==
    /\ pc = "load"
    /\ LET f == load_eks_config(env, files) IN
       IF f = "none"
       THEN /\ Raise("FileNotFoundError")
            /\ UNCHANGED <<read, loaded>>
       ELSE /\ read' = read \cup {f}
            /\ loaded' = f
            /\ pc' = "project_name"
            /\ UNCHANGED error
    /\ UNCHANGED <<entry, env, files, cfg, stack_region, azs, declared, applied,
                   addons_config, region_required, karpenter_config, exports, providers>>

\* line 46: project_name = eks_config["project"]["name"]
MainProjectName ==
    /\ pc = "project_name"
    /\ IF cfg.project_name
       THEN pc' = "create_vpc" /\ UNCHANGED error
       ELSE Raise("KeyError")
    /\ UNCHANGED <<entry, env, files, cfg, stack_region, read, loaded, azs,
                   declared, applied, addons_config, region_required,
                   karpenter_config, exports, providers>>

\* line 49: vpc = create_vpc(project_name); the provider answers the zone
\* query of vpc/__init__.py:48 with a list of any length.
MainCreateVpc ==
    /\ pc = "create_vpc"
    /\ \E zones \in 0 .. MaxAzs :
          /\ azs' = zones
          /\ declared' = declared \cup create_vpc(zones).declares
          /\ IF create_vpc(zones).raises = "none"
             THEN pc' = "create_iam_roles" /\ UNCHANGED error
             ELSE Raise(create_vpc(zones).raises)
    /\ UNCHANGED <<entry, env, files, cfg, stack_region, read, loaded, applied,
                   addons_config, region_required, karpenter_config, exports, providers>>

\* line 52: roles = create_iam_roles(project_name)
MainCreateIamRoles ==
    /\ pc = "create_iam_roles"
    /\ declared' = declared \cup create_iam_roles
    /\ pc' = "create_eks_cluster"
    /\ UNCHANGED <<entry, env, files, cfg, stack_region, error, read, loaded,
                   azs, applied, addons_config, region_required,
                   karpenter_config, exports, providers>>

\* lines 55-62: the arguments are evaluated first, eks_config["eks"]["node"]
\* among them, then create_eks_cluster runs.
MainCreateEksCluster ==
    /\ pc = "create_eks_cluster"
    /\ IF cfg.eks = "node"
       THEN /\ declared' = declared \cup create_eks_cluster
            /\ pc' = "addons_config"
            /\ UNCHANGED error
       ELSE /\ Raise("KeyError")
            /\ UNCHANGED declared
    /\ UNCHANGED <<entry, env, files, cfg, stack_region, read, loaded, azs,
                   applied, addons_config, region_required, karpenter_config,
                   exports, providers>>

\* lines 65-66: addons_config = eks_config["eks"].get("addons", {});
\* if addons_config.get("enable", True):
AddonsEnabled(c) == Truthy(DictGet(c.enable, "truthy"))

MainAddonsConfig ==
    /\ pc = "addons_config"
    /\ pc' = IF AddonsEnabled(cfg) THEN "require_region" ELSE "export"
    /\ UNCHANGED <<entry, env, files, cfg, stack_region, error, read, loaded,
                   azs, declared, applied, addons_config, region_required,
                   karpenter_config, exports, providers>>

\* line 67: aws_region = config.require("aws-region")
MainRequireRegion ==
    /\ pc = "require_region"
    /\ region_required' = TRUE
    /\ IF stack_region
       THEN pc' = "karpenter" /\ UNCHANGED error
       ELSE Raise("ConfigMissingError")
    /\ UNCHANGED <<entry, env, files, cfg, stack_region, read, loaded, azs,
                   declared, applied, addons_config, karpenter_config, exports, providers>>

\* lines 70-72: karpenter_config = None, or eks_config.get("karpenter", {})
\* when addons_config.get("karpenter", False) is truthy.
KarpenterConfig(c) ==
    IF Truthy(DictGet(c.karpenter, "falsy"))
    THEN (IF c.karpenter_section THEN "section" ELSE "empty")
    ELSE "None"

MainKarpenter ==
    /\ pc = "karpenter"
    /\ karpenter_config' = KarpenterConfig(cfg)
    /\ pc' = "setup_addons"
    /\ UNCHANGED <<entry, env, files, cfg, stack_region, error, read, loaded,
                   azs, declared, applied, addons_config, region_required,
                   exports, providers>>

\* Python binds a call's keyword arguments to the callee's parameters and
\* raises TypeError on a keyword the callee does not declare.
CallAccepted(keywords, params) == keywords \subseteq params

\* lines 74-82: the call setup_addons(kubeconfig=..., ..., karpenter_config=...)
MainSetupAddons ==
    /\ pc = "setup_addons"
    /\ IF CallAccepted(CallKeywords, SetupAddonsParams)
       THEN pc' = "provider" /\ UNCHANGED error
       ELSE Raise("TypeError")
    /\ UNCHANGED <<entry, env, files, cfg, stack_region, read, loaded, azs,
                   declared, applied, addons_config, region_required,
                   karpenter_config, exports, providers>>

\* lines 85-87: the three exports
MainExport ==
    /\ pc = "export"
    /\ exports' = exports \cup MainExports
    /\ pc' = "done"
    /\ UNCHANGED <<entry, env, files, cfg, stack_region, error, read, loaded,
                   azs, declared, applied, addons_config, region_required,
                   karpenter_config, providers>>

(***************************************************************************)
(* setup_addons, statement by statement.                                   *)
(***************************************************************************)
\* lines 38-41: k8s_provider = k8s.Provider(..., kubeconfig=kubeconfig)
SetupProvider ==
    /\ pc = "provider"
    /\ declared' = declared \cup {K8sProvider}
    /\ providers' = providers + 1
    /\ pc' = AddonKeys[1]
    /\ UNCHANGED <<entry, env, files, cfg, stack_region, error, read, loaded,
                   azs, applied, addons_config, region_required,
                   karpenter_config, exports>>

\* The default of the lookup turned around: addons_config.get(key, False).
AddonEnabledDefaultOff(v) == Truthy(DictGet(v, "falsy"))

\* if addons_config.get(key, True): the add-on of `key` is installed.
AddonEnabled(v) == Truthy(DictGet(v, "truthy"))

\* Where setup_addons goes after the i-th add-on: the next one, or back to
\* its caller.
AfterAddon(i) ==
    IF i < Len(AddonKeys) THEN AddonKeys[i + 1]
    ELSE IF entry = "main" THEN "export" ELSE "returned"

\* lines 43-65: one `if addons_config.get(key, True): _install_...(...)`;
\* the value under the key is whatever the caller's dict holds.
SetupAddon ==
    /\ \E i \in 1 .. Len(AddonKeys) :
          /\ pc = AddonKeys[i]
          /\ \E v \in FlagValues :
                /\ addons_config' = [addons_config EXCEPT ![AddonKeys[i]] = v]
                /\ declared' = IF AddonEnabled(v)
                               THEN declared \cup InstallDeclares(AddonKeys[i])
                               ELSE declared
          /\ pc' = AfterAddon(i)
    /\ UNCHANGED <<entry, env, files, cfg, stack_region, error, read, loaded,
                   azs, applied, region_required, karpenter_config, exports, providers>>

Next ==
    \/ MainLoad
    \/ MainProjectName
    \/ MainCreateVpc
    \/ MainCreateIamRoles
    \/ MainCreateEksCluster
    \/ MainAddonsConfig
    \/ MainRequireRegion
    \/ MainKarpenter
    \/ MainSetupAddons
    \/ MainExport
    \/ SetupProvider
    \/ SetupAddon
    \/ Apply

Spec == Init /\ [][Next]_vars

(***************************************************************************)
(* Properties.                                                             *)
(***************************************************************************)
Finished == pc \in {"done", "failed", "returned"}

\* No tracked resource is waiting for the engine.
Quiescent == Finished /\ \A r \in Tracked : ~Ready(r)

AddonInstalled(k) == InstallDeclares(k) \subseteq declared
AddonUntouched(k) == InstallDeclares(k) \cap declared = {}

\* What create_vpc, create_iam_roles and create_eks_cluster declare together
\* in a run with two zones or more.
BaseDeclared ==
    create_vpc(AzsUsed).declares \cup create_iam_roles \cup create_eks_cluster

\* C1: in a run of main the engine applies the network and the IAM roles
\* before the cluster, the cluster before the node group, and the node group
\* before every add-on chart.
C1_AppliedInComponentOrder ==
    entry = "main" =>
        /\ R("cluster") \in applied =>
              R("vpc") \in applied /\ R("node-role") \in applied
        /\ R("ng") \in applied => R("cluster") \in applied
        /\ \A c \in Charts : c \in applied => R("ng") \in applied

\* C2: a finished run of main with a complete configuration has set up the
\* add-ons (declared the Kubernetes provider) exactly when eks.addons.enable
\* is true or absent; with the flag false it declares no add-on resource,
\* never asks for 'aws-region', and declares the base resources as otherwise.
C2_AddonsSetUpIffEnabled ==
    (/\ entry = "main"
     /\ pc \in {"done", "failed"}
     /\ loaded # "none" /\ cfg.project_name /\ cfg.eks = "node"
     /\ stack_region /\ azs >= AzsUsed)
    =>
        /\ (K8sProvider \in declared) <=> (cfg.enable \in {"truthy", "absent"})
        /\ cfg.enable = "falsy" =>
              /\ declared \cap AddonResources = {}
              /\ ~region_required
        /\ BaseDeclared \subseteq declared

\* C3: once setup_addons has looked at an add-on's key, what that add-on's
\* installer declares is declared exactly when the value under that key is
\* truthy or the key is absent, whatever the other keys hold; before that,
\* nothing of it is declared; and setup_addons constructs one Kubernetes
\* provider.
C3_EachAddonFollowsItsOwnFlag ==
    /\ \A k \in AddonKeySet :
          IF addons_config[k] \in {"truthy", "absent"}
          THEN AddonInstalled(k)
          ELSE AddonUntouched(k)
    /\ providers = (IF K8sProvider \in declared THEN 1 ELSE 0)
    /\ pc \in AddonKeySet \cup {"returned"} => providers = 1

\* C3 witness: setup_addons has returned after skipping the metrics server
\* (falsy flag) and installing cert-manager (no key) and the EBS CSI driver.
C3_Witness ==
    /\ pc = "returned"
    /\ addons_config["metricsServer"] = "falsy"
    /\ addons_config["certManager"] = "absent"
    /\ addons_config["ebsCsiDriver"] = "truthy"
    /\ R("metrics-server") \notin declared
    /\ R("cert-manager") \in declared
    /\ R("aws-ebs-csi-driver") \in declared
    /\ providers = 1

\* C4: a run of main whose configuration file loads and holds project.name
\* and eks.node does not fail, and when it is done it has exported exactly
\* kubeconfig, cluster_name and vpc_id.
C4_ReachesExport ==
    (/\ entry = "main"
     /\ loaded # "none" /\ cfg.project_name /\ cfg.eks = "node"
     /\ stack_region /\ azs # 0)
    =>
        /\ pc # "failed"
        /\ pc = "done" => exports = {"kubeconfig", "cluster_name", "vpc_id"}

\* C5: once main has called load_eks_config, the file returned is
\* eks-config.<ENV>.json (ENV read as 'dev' when unset) when that file
\* exists, and then no other file was opened; otherwise it is
\* eks-config.json when that exists; otherwise the call raised
\* FileNotFoundError and opened nothing.
C5_LoadPrefersEnvFile ==
    (entry = "main" /\ pc # "load") =>
        LET wanted == IF env = "prod" THEN "eks-config.prod.json"
                      ELSE "eks-config.dev.json" IN
        IF wanted \in files
        THEN loaded = wanted /\ read = {wanted}
        ELSE IF "eks-config.json" \in files
        THEN loaded = "eks-config.json" /\ read = {"eks-config.json"}
        ELSE /\ pc = "failed" /\ error = "FileNotFoundError"
             /\ loaded = "none" /\ read = {}

\* C5 witness: ENV is unset, both eks-config.dev.json and eks-config.json
\* exist, and the call returned eks-config.dev.json.
C5_Witness ==
    /\ entry = "main"
    /\ env = "unset"
    /\ {"eks-config.dev.json", "eks-config.json"} \subseteq files
    /\ loaded = "eks-config.dev.json"
    /\ pc = "project_name"

\* C6: a run of main that ends on a missing file, a missing required entry
\* or a missing 'aws-region' has declared no resource.
C6_ConfigErrorBeforeAnyResource ==
    (/\ entry = "main"
     /\ pc = "failed"
     /\ error \in {"FileNotFoundError", "KeyError", "ConfigMissingError"})
    => declared = {}

\* C7: at every point of a run, every dependency edge of a declared
\* resource ends at a declared resource, and no declared resource depends
\* on itself, directly or through other resources.
C7_GraphAcyclicAndResolved ==
    \A r \in declared :
        /\ Deps(r, ZonesUsed(azs)) \subseteq declared
        /\ r \notin Ancestors(r, ZonesUsed(azs))

\* C7 witness: every add-on has been installed on top of the base
\* resources, the cert-manager chart and its namespace among them.
C7_Witness ==
    /\ pc = "returned"
    /\ BaseDeclared \cup AddonResources \subseteq declared
    /\ R("cert-manager-ns") \in Deps(R("cert-manager"), ZonesUsed(azs))

\* C10: when a component of main fails, every resource with no dependency
\* path to a resource of the failed component is still applied by the time
\* the engine has nothing left to do; here the network fails (create_vpc
\* raises) and the IAM node role does not depend on any network resource.
C10_IndependentComponentStillApplied ==
    (/\ entry = "main"
     /\ Quiescent
     /\ pc = "failed" /\ error = "IndexError")
    =>
        \A r \in create_iam_roles \cap Tracked :
            Ancestors(r, AzsUsed) \cap create_vpc(AzsUsed).declares = {}
            => r \in applied

\* C18: in a run of main with add-ons enabled, the call to setup_addons is
\* accepted (it does not raise TypeError), and the karpenter_config it is
\* given is None unless eks.addons.karpenter is truthy, and then the
\* top-level 'karpenter' section, or an empty mapping without that section.
C18_CallAcceptedWithKarpenterConfig ==
    (entry = "main" /\ karpenter_config # "unset") =>
        /\ error # "TypeError"
        /\ karpenter_config =
              (IF cfg.karpenter = "truthy"
               THEN (IF cfg.karpenter_section THEN "section" ELSE "empty")
               ELSE "None")

\* C19: every role that a declared chart names in its service-account
\* annotation is a role the program has declared.
C19_AnnotatedRolesDeclared ==
    \A c \in declared \cap Charts :
        AnnotatedRole(c) # "none" =>
            /\ AnnotatedRole(c) \in IamRoleNames
            /\ R(AnnotatedRole(c)) \in declared

\* C20: the engine applies every chart after the Kubernetes provider and
\* the cluster, the cert-manager chart after the cert-manager namespace,
\* and the EBS CSI driver chart after the kube-system namespace lookup.
C20_AddonsAppliedAfterDependencies ==
    /\ \A c \in applied \cap Charts :
          K8sProvider \in applied /\ R("cluster") \in applied
    /\ K8sProvider \in applied => R("cluster") \in applied
    /\ R("cert-manager") \in applied => R("cert-manager-ns") \in applied
    /\ R("aws-ebs-csi-driver") \in applied => R("kube-system-ns") \in applied

\* C20 witness: the cert-manager and EBS CSI charts have been applied, and
\* the metrics server chart too, while the node group is still waiting.
C20_Witness ==
    /\ {R("cert-manager"), R("aws-ebs-csi-driver"), R("metrics-server")}
          \subseteq applied
    /\ {R("cert-manager-ns"), R("kube-system-ns"), K8sProvider}
          \subseteq applied
    /\ R("ng") \notin applied

\* One address block inside another, and two blocks with no address shared.
Inside(b, outer) == outer.lo <= b.lo /\ b.hi <= outer.hi
Disjoint(b, c) == b.hi < c.lo \/ c.hi < b.lo

DeclaredSubnets == {r \in declared : IsSubnet(r)}
DeclaredAssociations == {r \in declared : IsAssociation(r)}

\* C21: whenever create_vpc has returned, whatever list of zones the
\* provider gave it, the subnets it created lie in exactly two distinct
\* zones, each of these zones holds exactly one public and one private
\* subnet, and as many private subnet IDs are returned as public ones.
C21_TwoZonesOnePairEach ==
    (entry = "main" /\ azs >= 0 /\ create_vpc(azs).raises = "none") =>
        LET zonesOf == {SubnetZone(s[2], azs) : s \in DeclaredSubnets} IN
        /\ Cardinality(zonesOf) = AzsUsed
        /\ \A z \in zonesOf : \A kind \in {"public", "private"} :
              Cardinality({s \in DeclaredSubnets :
                  s[1] = kind /\ SubnetZone(s[2], azs) = z}) = 1
        /\ Len(PrivateSubnetIds(ZonesUsed(azs)))
              = Len(PublicSubnetIds(ZonesUsed(azs)))

\* C22: every subnet create_vpc has created has its address block inside
\* the VPC's 10.0.0.0/16, and no two subnets created in the run share an
\* address.
C22_SubnetBlocksInsideVpcAndDisjoint ==
    /\ \A s \in DeclaredSubnets : Inside(SubnetCidrBlock(s), VpcCidrBlock)
    /\ \A s, t \in DeclaredSubnets :
          s # t => Disjoint(SubnetCidrBlock(s), SubnetCidrBlock(t))

\* C22 witness: main has run create_vpc on a list of at least two zones, so
\* two public and two private subnets exist.
C22_Witness ==
    /\ entry = "main"
    /\ azs >= AzsUsed
    /\ {<<"public", 0>>, <<"public", 1>>, <<"private", 0>>, <<"private", 1>>}
          \subseteq declared

\* C23: every subnet created has exactly one route table association; a
\* public subnet's is with the table whose default route is the internet
\* gateway, a private subnet's with the table whose default route is the
\* NAT gateway.  The NAT gateway is in the public subnet of the first zone,
\* and the S3 endpoint is attached to the private route table and no other.
C23_EachSubnetOnItsRouteTable ==
    /\ \A s \in DeclaredSubnets :
          LET mine == {a \in DeclaredAssociations : AssociationSubnet(a) = s}
              gateway == IF s[1] = "public" THEN R("igw") ELSE R("natgw")
          IN /\ Cardinality({AssociationRouteTable(a) : a \in mine}) = 1
             /\ Cardinality(mine) = 1
             /\ \A a \in mine :
                   /\ AssociationRouteTable(a) \in declared
                   /\ DefaultRoute(AssociationRouteTable(a)) = gateway
                   /\ gateway \in declared
    /\ R("natgw") \in declared =>
          /\ NatGatewaySubnet \in declared
          /\ NatGatewaySubnet[1] = "public"
          /\ SubnetZone(NatGatewaySubnet[2], azs) = ZoneNames(azs)[1]
    /\ R("s3-endpoint") \in declared =>
          /\ EndpointRouteTables \subseteq declared
          /\ EndpointRouteTables =
                {rt \in {R("public-rt"), R("private-rt")} :
                    DefaultRoute(rt) = R("natgw")}

\* C23 witness: main has run create_vpc to its end on at least two zones:
\* the associations of both kinds, the NAT gateway and the endpoint exist.
C23_Witness ==
    /\ entry = "main"
    /\ {<<"public-rta", 1>>, <<"private-rta", 1>>, R("natgw"),
        R("s3-endpoint")} \subseteq declared

\* C24: once create_eks_cluster has run, the cluster's subnet list is the
\* private subnets followed by the public subnets, the node group's list is
\* the private subnets and holds no public subnet, and the node group has
\* the node role of create_iam_roles and the cluster of the same call.
C24_NodeGroupOnPrivateSubnetsOnly ==
    R("ng") \in declared =>
        LET n == ZonesUsed(azs)
            ngIds == {NodeGroupSubnetIds(n)[j] :
                         j \in 1 .. Len(NodeGroupSubnetIds(n))}
        IN /\ Len(ClusterSubnetIds(n)) = 2 * n
           /\ \A j \in 1 .. n :
                 /\ ClusterSubnetIds(n)[j] = <<"private", j - 1>>
                 /\ ClusterSubnetIds(n)[n + j] = <<"public", j - 1>>
           /\ ngIds = {s \in declared : s[1] = "private"}
           /\ \A s \in ngIds : s[1] # "public"
           /\ NodeGroupRole = R("node-role")
           /\ NodeGroupRole \in create_iam_roles \cap declared
           /\ NodeGroupCluster = R("cluster")
           /\ NodeGroupCluster \in create_eks_cluster \cap declared
           /\ ngIds \cup {NodeGroupRole, NodeGroupCluster}
                 \subseteq EksDeps(R("ng"), n)
           /\ \A d \in EksDeps(R("ng"), n) : d[1] # "public"

\* C24 witness: main has run create_eks_cluster after a create_vpc that
\* made two subnets of each kind.
C24_Witness ==
    /\ entry = "main"
    /\ R("ng") \in declared
    /\ {<<"public", 1>>, <<"private", 1>>} \subseteq declared

====
